---- MODULE Spec2Model ----
(***************************************************************************)
(* Model of load_data.py: the EIEP3 extract / transform / load routine     *)
(* load_eiep3_to_snowflake().  Lines are text; the model splits, trims     *)
(* and converts them the way the Python code and its library calls do.     *)
(***************************************************************************)
EXTENDS Integers, Sequences, FiniteSets, TLC

VARIABLES LOAD_METHOD, file_content, pc, file_lines, i, header_info,
          processed_records, exc, written, stdout, result

vars == <<LOAD_METHOD, file_content, pc, file_lines, i, header_info,
          processed_records, exc, written, stdout, result>>

(***************************************************************************)
(* Python str helpers                                                      *)
(***************************************************************************)
CharAt(s, k) == SubSeq(s, k, k)

IsSpace(c) == c \in {" ", "\n", "\t", "\r"}

RECURSIVE lstrip(_)
lstrip(s) == IF s # "" /\ IsSpace(CharAt(s, 1)) THEN lstrip(SubSeq(s, 2, Len(s))) ELSE s

RECURSIVE rstrip(_)
rstrip(s) == IF s # "" /\ IsSpace(CharAt(s, Len(s))) THEN rstrip(SubSeq(s, 1, Len(s) - 1)) ELSE s

strip(s) == rstrip(lstrip(s))

RECURSIVE find(_, _, _)
find(s, c, k) == IF k > Len(s) THEN 0 ELSE IF CharAt(s, k) = c THEN k ELSE find(s, c, k + 1)

RECURSIVE split(_, _)
split(s, sep) ==
  LET k == find(s, sep, 1)
  IN  IF k = 0 THEN <<s>>
      ELSE <<SubSeq(s, 1, k - 1)>> \o split(SubSeq(s, k + 1, Len(s)), sep)

\* fields = [field.strip() for field in line.split(',')]
Fields(line) == LET parts == split(line, ",") IN [k \in 1..Len(parts) |-> strip(parts[k])]

\* fields[n] with Python's 0-based index; InRange is the IndexError condition
InRange(fields, n) == n < Len(fields)
Field(fields, n) == fields[n + 1]

(***************************************************************************)
(* Python conversions: int(), float(), datetime.strptime()                 *)
(***************************************************************************)
DigitChars == "0123456789"
DigitVal(c) == find(DigitChars, c, 1) - 1
IsDigits(s) == s # "" /\ \A k \in 1..Len(s) : DigitVal(CharAt(s, k)) >= 0

RECURSIVE DigitsVal(_)
DigitsVal(s) == IF s = "" THEN 0
                ELSE 10 * DigitsVal(SubSeq(s, 1, Len(s) - 1)) + DigitVal(CharAt(s, Len(s)))

HasSign(s) == s # "" /\ CharAt(s, 1) \in {"+", "-"}
Unsigned(s) == IF HasSign(s) THEN SubSeq(s, 2, Len(s)) ELSE s
Sign(s) == IF s # "" /\ CharAt(s, 1) = "-" THEN -1 ELSE 1

\* int(s): optional sign, then decimal digits
int(s) == IF IsDigits(Unsigned(s))
          THEN [ok |-> TRUE, val |-> Sign(s) * DigitsVal(Unsigned(s))]
          ELSE [ok |-> FALSE, val |-> 0]

None == [py |-> "None", num |-> 0, scale |-> 0]

RECURSIVE Normalise(_, _)
Normalise(num, scale) == IF scale > 0 /\ num % 10 = 0 THEN Normalise(num \div 10, scale - 1)
                         ELSE [py |-> "float", num |-> num, scale |-> scale]

\* float(s): optional sign, digits with at most one decimal point and at
\* least one digit; the value is num / 10^scale
float(s) ==
  LET body == Unsigned(s)
      parts == split(body, ".")
      whole == parts[1]
      frac == IF Len(parts) = 2 THEN parts[2] ELSE ""
      ok == /\ Len(parts) \in {1, 2}
            /\ whole = "" \/ IsDigits(whole)
            /\ frac = "" \/ IsDigits(frac)
            /\ whole # "" \/ frac # ""
  IN  IF ok
      THEN [ok |-> TRUE, val |-> Normalise(Sign(s) * DigitsVal(whole \o frac), Len(frac))]
      ELSE [ok |-> FALSE, val |-> None]

IsLeap(y) == (y % 4 = 0 /\ y % 100 # 0) \/ y % 400 = 0
DaysInMonth(y, m) == IF m = 2 THEN (IF IsLeap(y) THEN 29 ELSE 28)
                     ELSE IF m \in {4, 6, 9, 11} THEN 30 ELSE 31

NoDate == [year |-> 0, month |-> 0, day |-> 0]
NoTime == [hour |-> 0, minute |-> 0, second |-> 0]

\* datetime.strptime(s, '%d/%m/%Y').date()
strptime_date(s) ==
  LET parts == split(s, "/")
      shape == /\ Len(parts) = 3
               /\ \A k \in 1..3 : IsDigits(parts[k])
               /\ Len(parts[1]) \in {1, 2} /\ Len(parts[2]) \in {1, 2} /\ Len(parts[3]) = 4
      d == DigitsVal(parts[1])
      m == DigitsVal(parts[2])
      y == DigitsVal(parts[3])
  IN  IF shape /\ y >= 1 /\ m \in 1..12 /\ d >= 1 /\ d <= DaysInMonth(y, m)
      THEN [ok |-> TRUE, val |-> [year |-> y, month |-> m, day |-> d]]
      ELSE [ok |-> FALSE, val |-> NoDate]

\* datetime.strptime(s, '%H:%M:%S').time()
strptime_time(s) ==
  LET parts == split(s, ":")
      shape == /\ Len(parts) = 3
               /\ \A k \in 1..3 : IsDigits(parts[k]) /\ Len(parts[k]) \in {1, 2}
      h == DigitsVal(parts[1])
      m == DigitsVal(parts[2])
      sec == DigitsVal(parts[3])
  IN  IF shape /\ h <= 23 /\ m <= 59 /\ sec <= 59
      THEN [ok |-> TRUE, val |-> [hour |-> h, minute |-> m, second |-> sec]]
      ELSE [ok |-> FALSE, val |-> NoTime]

(***************************************************************************)
(* Values built by the transform                                           *)
(***************************************************************************)
NoExc == [type |-> "None", msg |-> ""]
ValueError(msg) == [type |-> "ValueError", msg |-> msg]
IndexError == [type |-> "IndexError", msg |-> "list index out of range"]

SequenceMsg == "Invalid File Format: Detail record (DET) found before Header record (HDR)."
LoadMethodMsg == "Invalid LOAD_METHOD"
DateMsg == "time data does not match format '%d/%m/%Y'"
TimeMsg == "time data does not match format '%H:%M:%S'"
IntMsg == "invalid literal for int() with base 10"
FloatMsg == "could not convert string to float"
HourMsg == "hour must be in 0..23"

Ok(v) == [exc |-> NoExc, val |-> v]
Fail(e) == [exc |-> e, val |-> <<>>]

\* the dict display of lines 109-116, evaluated key by key in source order
ParseHeader(fields) ==
  IF ~InRange(fields, 8) THEN Fail(IndexError)
  ELSE IF ~strptime_date(Field(fields, 6)).ok THEN Fail(ValueError(DateMsg))
  ELSE IF ~strptime_time(Field(fields, 7)).ok THEN Fail(ValueError(TimeMsg))
  ELSE IF ~InRange(fields, 10) THEN Fail(IndexError)
  ELSE Ok([FILE_IDENTIFIER |-> Field(fields, 8),
           CREATION_DATE |-> strptime_date(Field(fields, 6)).val,
           CREATION_TIME |-> strptime_time(Field(fields, 7)).val,
           SENDER_PARTICIPANT_CODE |-> Field(fields, 3),
           RECEIVER_PARTICIPANT_CODE |-> Field(fields, 4),
           CONSUMPTION_MONTH |-> Field(fields, 10)])

HeaderMissingNever(header) == FALSE

\* "if not header_info": an empty dict is falsy
HeaderMissing(header) == DOMAIN header = {}

reading_hour_no_offset(trading_period) == trading_period \div 2
reading_hour(trading_period) == (trading_period - 1) \div 2
reading_minute(trading_period) == 30 * ((trading_period - 1) % 2)

\* datetime.combine(reading_date, datetime.min.time())
combine(date) == [year |-> date.year, month |-> date.month, day |-> date.day,
                  hour |-> 0, minute |-> 0, second |-> 0]

replace_unchecked(hour, minute) == TRUE

\* datetime.replace(hour=..., minute=...) raises ValueError outside these ranges
replace_ok(hour, minute) == hour \in 0..23 /\ minute \in 0..59
replace(dt, hour, minute) == [dt EXCEPT !.hour = hour, !.minute = minute]

energy_blank_zero(field) == float(IF field # "" THEN field ELSE "0.0")

\* float(fields[n]) if fields[n] else None
energy(field) == IF field # "" THEN float(field) ELSE [ok |-> TRUE, val |-> None]

FLOW_DIRECTION_INDEX_8 == 9 - 1

\* index of the flow direction field (line 137)
FLOW_DIRECTION_INDEX == 9

\* {**header_info, "ICP_IDENTIFIER": ..., ...}: later keys win
MergeDict(header, detail) == detail @@ header

\* lines 119-138, in evaluation order
ParseDetail(header, fields) ==
  IF HeaderMissing(header) THEN Fail(ValueError(SequenceMsg))
  ELSE IF ~InRange(fields, 4) THEN Fail(IndexError)
  ELSE IF ~strptime_date(Field(fields, 4)).ok THEN Fail(ValueError(DateMsg))
  ELSE IF ~InRange(fields, 5) THEN Fail(IndexError)
  ELSE IF ~int(Field(fields, 5)).ok THEN Fail(ValueError(IntMsg))
  ELSE LET reading_date == strptime_date(Field(fields, 4)).val
           trading_period == int(Field(fields, 5)).val
           hour == reading_hour(trading_period)
           minute == reading_minute(trading_period)
       IN  IF ~replace_ok(hour, minute) THEN Fail(ValueError(HourMsg))
           ELSE IF ~InRange(fields, 6) THEN Fail(IndexError)
           ELSE IF ~energy(Field(fields, 6)).ok THEN Fail(ValueError(FloatMsg))
           ELSE IF ~InRange(fields, 7) THEN Fail(IndexError)
           ELSE IF ~energy(Field(fields, 7)).ok THEN Fail(ValueError(FloatMsg))
           ELSE IF ~InRange(fields, FLOW_DIRECTION_INDEX) THEN Fail(IndexError)
           ELSE Ok(MergeDict(header,
                     [ICP_IDENTIFIER |-> Field(fields, 1),
                      METER_SERIAL_NUMBER |-> Field(fields, 2),
                      READING_STATUS_FLAG |-> Field(fields, 3),
                      READING_DATETIME |-> replace(combine(reading_date), hour, minute),
                      KWH_CONSUMPTION |-> energy(Field(fields, 6)).val,
                      KVARH_CONSUMPTION |-> energy(Field(fields, 7)).val,
                      FLOW_DIRECTION |-> Field(fields, FLOW_DIRECTION_INDEX)]))

PrependRecord(records, record) == <<record>> \o records

\* processed_records.append(record)
AppendRecord(records, record) == Append(records, record)

StoreFirstHeader(old, parsed) == IF DOMAIN old = {} THEN parsed ELSE old

\* header_info = {...}
StoreHeader(old, parsed) == parsed

NothingToLoadNever(records) == FALSE

\* "if not processed_records"
NothingToLoadCond(records) == records = <<>>

\* pd.DataFrame(processed_records): one row per dict, in list order
DataFrame(records) == [columns |-> IF records = <<>> THEN {} ELSE DOMAIN records[1], rows |-> records]

\* "if not line.strip(): continue"
IsBlank(line) == strip(line) = ""
record_type(line) == Field(Fields(line), 0)

(***************************************************************************)
(* Inputs                                                                  *)
(***************************************************************************)
MaxLines == 3
PeriodSlack == 3

HDR1 == "HDR,X,Y,SND,RCV,Z,01/05/2024,00:00:00,FILE1,W,202405"
HDR2 == "HDR,X,Y,SN2,RC2,Z,29/02/2024,23:59:59,FILE2,W,202402\n"
DET9 == "DET,ICP1,MTR1,OK,01/05/2024,3,12.5,,G"
DET10 == "DET,ICP1,MTR1,OK,01/05/2024,3,12.5,,,G"
DETBLANK == " DET , ICP2,MTR2,OK,31/12/2023,48, ,0.0,,I\n"
BLANK == " \n"
TRAILER == "TRL,2\n"

CoreLines == {HDR1, HDR2, DET10, DETBLANK, BLANK, TRAILER}

MalformedLines == {
  "HDR,X,Y,SND,RCV,Z,2024-05-01,00:00:00,FILE1,W,202405\n",
  "DET,ICP3,MTR3,OK,01/05/2024,7,abc,,,G\n",
  "HDR,X,Y,SND,RCV,Z,01/05/2024,00:00:00",
  "HDR,X,Y,SND,RCV,Z,31/02/2024,00:00:00,FILE1,W,202405",
  "HDR,X,Y,SND,RCV,Z,01/05/2024,24:00:00,FILE1,W,202405",
  "HDR,X,Y,SND,RCV,Z,01/05/2024,00:00:00,FILE1,W",
  "DET,ICP1,MTR1,OK",
  "DET,ICP1,MTR1,OK,01/05/24,3,12.5,,,G",
  "DET,ICP1,MTR1,OK,01/05/2024",
  "DET,ICP1,MTR1,OK,01/05/2024,3.0,12.5,,,G",
  "DET,ICP1,MTR1,OK,01/05/2024,,12.5,,,G",
  "DET,ICP1,MTR1,OK,01/05/2024,3",
  "DET,ICP1,MTR1,OK,01/05/2024,3,12.5",
  "DET,ICP1,MTR1,OK,01/05/2024,3,,1.2.3,,G",
  "DET,ICP1,MTR1,OK,01/05/2024,3,,-,,G",
  "DET,ICP1,MTR1,OK,01/05/2024,3,12.5,",
  DET9,
  "hdr,x",
  ",DET",
  "" }

RECURSIVE SeqsUpTo(_, _)
SeqsUpTo(S, n) == IF n = 0 THEN {<<>>}
                  ELSE LET shorter == SeqsUpTo(S, n - 1)
                       IN  shorter \cup {Append(q, x) : q \in {p \in shorter : Len(p) = n - 1}, x \in S}

\* str(n), used to write the trading period into a DET line
RECURSIVE NatStr(_)
NatStr(n) == IF n < 10 THEN CharAt(DigitChars, n + 1)
             ELSE NatStr(n \div 10) \o CharAt(DigitChars, (n % 10) + 1)
IntStr(n) == IF n < 0 THEN "-" \o NatStr(0 - n) ELSE NatStr(n)

PeriodLine(date, p) == "DET,ICP9,MTR9,OK," \o date \o "," \o IntStr(p) \o ",1.25,,,X\n"

GeneralInputs == SeqsUpTo(CoreLines, MaxLines)
MalformedInputs == UNION {{<<x>>, <<HDR1, x>>, <<HDR1, DET10, x>>, <<HDR1, DETBLANK, x>>,
                          <<HDR1, x, DET10>>, <<TRAILER, x, HDR1>>} :
                          x \in MalformedLines}
PeriodInputs == {<<HDR1, BLANK, PeriodLine(d, p)>> : d \in {"01/05/2024", "29/02/2024"},
                                                   p \in (0 - PeriodSlack)..(48 + PeriodSlack)}

LoadMethods == {"SFTP", "LOCAL", "FTP"}

(***************************************************************************)
(* load_eiep3_to_snowflake                                                 *)
(***************************************************************************)
Init ==
  /\ LOAD_METHOD \in LoadMethods
  /\ file_content \in GeneralInputs \cup MalformedInputs \cup PeriodInputs
  /\ pc = "extract"
  /\ file_lines = <<>>
  /\ i = 0
  /\ header_info = <<>>
  /\ processed_records = <<>>
  /\ exc = NoExc
  /\ written = <<>>
  /\ stdout = <<>>
  /\ result = "running"

\* an exception leaves the try block for the handlers of lines 161-164
Raise(e) ==
  /\ pc' = "except"
  /\ exc' = e
  /\ UNCHANGED <<i, header_info, processed_records>>

SkipAndContinue(e) == i' = i + 1 /\ UNCHANGED <<pc, header_info, processed_records, exc>>

\* an exception raised inside the for loop of lines 102-138
RaiseInLoop(e) == Raise(e)

StartTransform(lines) ==
  /\ file_lines' = lines
  /\ pc' = "transform"
  /\ i' = 1
  /\ stdout' = stdout \o <<"Starting ETL process", "Processing file records...">>
  /\ UNCHANGED <<header_info, processed_records, exc>>

ExtractInputs == UNCHANGED <<LOAD_METHOD, file_content, written, result>>

\* lines 91-92 and _get_file_lines_from_sftp
ExtractSftp ==
  /\ pc = "extract" /\ LOAD_METHOD = "SFTP"
  /\ \E outcome \in {"lines", "AuthenticationException", "FileNotFoundError", "SSHException"} :
       IF outcome = "lines" THEN StartTransform(file_content)
       ELSE /\ Raise([type |-> outcome, msg |-> "sftp"])
            /\ stdout' = Append(stdout, "Starting ETL process")
            /\ UNCHANGED file_lines
  /\ ExtractInputs

\* lines 93-94 and _get_file_lines_from_local
ExtractLocal ==
  /\ pc = "extract" /\ LOAD_METHOD = "LOCAL"
  /\ \E outcome \in {"lines", "FileNotFoundError"} :
       IF outcome = "lines" THEN StartTransform(file_content)
       ELSE /\ Raise([type |-> outcome, msg |-> "No such file or directory"])
            /\ stdout' = Append(stdout, "Starting ETL process")
            /\ UNCHANGED file_lines
  /\ ExtractInputs

\* lines 95-96
ExtractInvalidMethod ==
  /\ pc = "extract" /\ LOAD_METHOD \notin {"SFTP", "LOCAL"}
  /\ Raise(ValueError(LoadMethodMsg))
  /\ stdout' = Append(stdout, "Starting ETL process")
  /\ UNCHANGED file_lines
  /\ ExtractInputs

InLoop == pc = "transform" /\ i <= Len(file_lines)
LoopInputs == UNCHANGED <<LOAD_METHOD, file_content, file_lines, written, result>>

\* line 103
SkipBlankLine ==
  /\ InLoop /\ IsBlank(file_lines[i])
  /\ i' = i + 1
  /\ UNCHANGED <<pc, header_info, processed_records, exc, stdout>>
  /\ LoopInputs

\* lines 108-117
HdrLine ==
  /\ InLoop /\ ~IsBlank(file_lines[i]) /\ record_type(file_lines[i]) = "HDR"
  /\ LET parsed == ParseHeader(Fields(file_lines[i]))
     IN  IF parsed.exc # NoExc
         THEN RaiseInLoop(parsed.exc) /\ UNCHANGED stdout
         ELSE /\ header_info' = StoreHeader(header_info, parsed.val)
              /\ stdout' = Append(stdout, "Header information parsed.")
              /\ i' = i + 1
              /\ UNCHANGED <<pc, processed_records, exc>>
  /\ LoopInputs

\* lines 118-138
DetLine ==
  /\ InLoop /\ ~IsBlank(file_lines[i]) /\ record_type(file_lines[i]) = "DET"
  /\ LET parsed == ParseDetail(header_info, Fields(file_lines[i]))
     IN  IF parsed.exc # NoExc
         THEN RaiseInLoop(parsed.exc)
         ELSE /\ processed_records' = AppendRecord(processed_records, parsed.val)
              /\ i' = i + 1
              /\ UNCHANGED <<pc, header_info, exc>>
  /\ UNCHANGED stdout
  /\ LoopInputs

\* a record type that is neither HDR nor DET falls through both branches
OtherLine ==
  /\ InLoop /\ ~IsBlank(file_lines[i]) /\ record_type(file_lines[i]) \notin {"HDR", "DET"}
  /\ i' = i + 1
  /\ UNCHANGED <<pc, header_info, processed_records, exc, stdout>>
  /\ LoopInputs

LoopDone == pc = "transform" /\ i > Len(file_lines)

\* lines 143-145
NothingToLoad ==
  /\ LoopDone /\ NothingToLoadCond(processed_records)
  /\ stdout' = Append(stdout, "No detail records (DET) found. Nothing to load.")
  /\ pc' = "done"
  /\ result' = "returned None"
  /\ UNCHANGED <<LOAD_METHOD, file_content, file_lines, i, header_info, processed_records, exc, written>>

\* lines 147-159: connect(), then one write_pandas call with the whole frame
LoadRecords ==
  /\ LoopDone /\ ~NothingToLoadCond(processed_records)
  /\ \E outcome \in {"connect failed", "write failed", "success", "not success"} :
       LET df == DataFrame(processed_records)
       IN  CASE outcome = "connect failed" ->
                  /\ Raise([type |-> "DatabaseError", msg |-> "connect"])
                  /\ stdout' = Append(stdout, "Transform complete. Preparing to load")
                  /\ UNCHANGED <<written, result>>
             [] outcome = "write failed" ->
                  /\ Raise([type |-> "ProgrammingError", msg |-> "write_pandas"])
                  /\ stdout' = Append(stdout, "Transform complete. Preparing to load")
                  /\ written' = Append(written, df)
                  /\ UNCHANGED result
             [] OTHER ->
                  /\ written' = Append(written, df)
                  /\ stdout' = stdout \o <<"Transform complete. Preparing to load",
                                           IF outcome = "success" THEN "LOAD COMPLETE" ELSE "LOAD FAILED"
                                         >>
                  /\ pc' = "done"
                  /\ result' = "returned None"
                  /\ UNCHANGED <<i, header_info, processed_records, exc>>
  /\ UNCHANGED <<LOAD_METHOD, file_content, file_lines>>

Handled == UNCHANGED <<LOAD_METHOD, file_content, file_lines, i, header_info, processed_records, exc, written>>

\* lines 161-162
ExceptExtraction ==
  /\ pc = "except" /\ exc.type \in {"FileNotFoundError", "AuthenticationException"}
  /\ stdout' = Append(stdout, "ERROR during extraction: " \o exc.msg)
  /\ pc' = "done"
  /\ result' = "returned None"
  /\ Handled

\* lines 163-164
ExceptException ==
  /\ pc = "except" /\ exc.type \notin {"FileNotFoundError", "AuthenticationException"}
  /\ stdout' = Append(stdout, "An unexpected error occurred: " \o exc.msg)
  /\ pc' = "done"
  /\ result' = "returned None"
  /\ Handled

Next ==
  \/ ExtractSftp
  \/ ExtractLocal
  \/ ExtractInvalidMethod
  \/ SkipBlankLine
  \/ HdrLine
  \/ DetLine
  \/ OtherLine
  \/ NothingToLoad
  \/ LoadRecords
  \/ ExceptExtraction
  \/ ExceptException

Spec == Init /\ [][Next]_vars

(***************************************************************************)
(* Vocabulary of the properties                                            *)
(***************************************************************************)
IsHdrLine(line) == ~IsBlank(line) /\ record_type(line) = "HDR"
IsDetLine(line) == ~IsBlank(line) /\ record_type(line) = "DET"
IsIgnoredLine(line) == IsBlank(line) \/ record_type(line) \notin {"HDR", "DET"}

DetPositions(lines) == {k \in 1..Len(lines) : IsDetLine(lines[k])}
DetCount(lines, upto) == Cardinality({k \in DetPositions(lines) : k <= upto})
\* position of the n-th DET line
NthDet(lines, n) == CHOOSE k \in DetPositions(lines) : DetCount(lines, k) = n
HdrBefore(lines, k) == {j \in 1..(k - 1) : IsHdrLine(lines[j])}
LastHdrBefore(lines, k) == CHOOSE j \in HdrBefore(lines, k) : \A m \in HdrBefore(lines, k) : m <= j
FirstDet(lines) == CHOOSE k \in DetPositions(lines) : \A m \in DetPositions(lines) : k <= m
DetBeforeAnyHdr(lines) == DetPositions(lines) # {} /\ HdrBefore(lines, FirstDet(lines)) = {}

Ended == pc \in {"except", "done"}
SequenceError == ValueError(SequenceMsg)
ParseErrors == {IndexError, ValueError(DateMsg), ValueError(TimeMsg), ValueError(IntMsg),
                ValueError(FloatMsg), ValueError(HourMsg)}
Float(num, scale) == [py |-> "float", num |-> num, scale |-> scale]
DateTime(y, mo, d, h, mi, sec) ==
  [year |-> y, month |-> mo, day |-> d, hour |-> h, minute |-> mi, second |-> sec]
HeaderKeys == {"FILE_IDENTIFIER", "CREATION_DATE", "CREATION_TIME", "SENDER_PARTICIPANT_CODE",
               "RECEIVER_PARTICIPANT_CODE", "CONSUMPTION_MONTH"}

\* C1: when a DET line comes before any HDR line, the run stops at that DET
\* line with the "DET before HDR" error, whatever else the line holds: the
\* loop never moves past it, no record is kept and nothing is written.
C1_DetBeforeHdrFails ==
  DetBeforeAnyHdr(file_lines) =>
    /\ i <= FirstDet(file_lines)
    /\ processed_records = <<>>
    /\ written = <<>>
    /\ Ended => (exc = SequenceError /\ i = FirstDet(file_lines))

C1_Witness ==
  /\ pc = "done" /\ DetBeforeAnyHdr(file_lines) /\ exc = SequenceError
  /\ i < Len(file_lines)
  /\ Len(Fields(file_lines[i])) < 5

\* C2: every record kept so far carries the six header fields of the last
\* HDR line that precedes its DET line, also when the file has several HDR
\* lines, and also after later HDR lines have been read.
C2_RecordCarriesLatestHeader ==
  \A n \in 1..Len(processed_records) :
    LET k == NthDet(file_lines, n)
        h == Fields(file_lines[LastHdrBefore(file_lines, k)])
        r == processed_records[n]
    IN  /\ HeaderKeys \subseteq DOMAIN r
        /\ r.FILE_IDENTIFIER = Field(h, 8)
        /\ r.CREATION_DATE = strptime_date(Field(h, 6)).val
        /\ r.CREATION_TIME = strptime_time(Field(h, 7)).val
        /\ r.SENDER_PARTICIPANT_CODE = Field(h, 3)
        /\ r.RECEIVER_PARTICIPANT_CODE = Field(h, 4)
        /\ r.CONSUMPTION_MONTH = Field(h, 10)

C2_Witness ==
  /\ pc = "done" /\ Len(processed_records) = 1
  /\ LET k == NthDet(file_lines, 1)
         j == LastHdrBefore(file_lines, k)
     IN  /\ \E m \in HdrBefore(file_lines, j) :
               Field(Fields(file_lines[m]), 8) # Field(Fields(file_lines[j]), 8)
         /\ processed_records[1].FILE_IDENTIFIER = "FILE2"

\* C3: for a trading period p in 1..48 the reading timestamp is the reading
\* date at hour (p-1) div 2, minute 30 when p-1 is odd and 0 otherwise,
\* second 0; p = 1 is 00:00, p = 2 is 00:30 and p = 48 is 23:30.
C3_PeriodToTimestamp ==
  \A n \in 1..Len(processed_records) :
    LET f == Fields(file_lines[NthDet(file_lines, n)])
        p == int(Field(f, 5)).val
        d == strptime_date(Field(f, 4)).val
        t == processed_records[n].READING_DATETIME
    IN  p \in 1..48 =>
          /\ t = DateTime(d.year, d.month, d.day, (p - 1) \div 2,
                          IF (p - 1) % 2 = 1 THEN 30 ELSE 0, 0)
          /\ p = 1 => (t.hour = 0 /\ t.minute = 0)
          /\ p = 2 => (t.hour = 0 /\ t.minute = 30)
          /\ p = 48 => (t.hour = 23 /\ t.minute = 30)

C3_Witness ==
  /\ Len(processed_records) = 1
  /\ Field(Fields(file_lines[NthDet(file_lines, 1)]), 5) = "48"
  /\ processed_records[1].READING_DATETIME = DateTime(2024, 2, 29, 23, 30, 0)

\* C4: an input without any DET line never yields a record and never
\* reaches the sink, with or without HDR, blank or other lines.
C4_NoDetNoLoad ==
  DetPositions(file_content) = {} => (processed_records = <<>> /\ written = <<>>)

C4_Witness ==
  /\ pc = "done" /\ exc = NoExc /\ DetPositions(file_lines) = {}
  /\ \E k \in 1..Len(file_lines) : IsHdrLine(file_lines[k])
  /\ \E k \in 1..Len(file_lines) : IsBlank(file_lines[k])
  /\ written = <<>>

InvalidEnergy(f) ==
  \E e \in {6, 7} : InRange(f, e) /\ Field(f, e) # "" /\ ~float(Field(f, e)).ok

C6_NineFieldScenario ==
  (file_lines = <<HDR1, DET9>> /\ Ended) =>
    /\ exc = NoExc
    /\ Len(processed_records) = 1
    /\ processed_records[1].READING_DATETIME = DateTime(2024, 5, 1, 1, 0, 0)
    /\ processed_records[1].KWH_CONSUMPTION = Float(125, 1)
    /\ processed_records[1].KVARH_CONSUMPTION = None

\* C6 amended: the nine-field DET line has no field 9, so the run stops at
\* it with an IndexError and no record; with the flow direction in field 9
\* (ten fields) the decoder gives exactly the one record of the scenario.
C6_ScenarioNeedsTenFields ==
  /\ (file_lines = <<HDR1, DET9>> /\ i >= 2) =>
       /\ i = 2 /\ processed_records = <<>> /\ written = <<>>
       /\ Ended => exc = IndexError
  /\ (file_lines = <<HDR1, DET10>> /\ i >= 2) =>
       /\ exc \notin ParseErrors \cup {SequenceError}
       /\ i > 2 =>
            /\ Len(processed_records) = 1
            /\ processed_records[1].READING_DATETIME = DateTime(2024, 5, 1, 1, 0, 0)
            /\ processed_records[1].KWH_CONSUMPTION = Float(125, 1)
            /\ processed_records[1].KVARH_CONSUMPTION = None
            /\ processed_records[1].FLOW_DIRECTION = "G"

C6_Witness ==
  /\ file_lines = <<HDR1, DET9>> /\ pc = "done" /\ i = 2
  /\ exc = IndexError /\ processed_records = <<>>

\* a line the decoder cannot read: a required position is missing or a
\* date, time or number field does not convert
ReferenceHeader == ParseHeader(Fields(HDR1)).val
Malformed(line) ==
  \/ IsHdrLine(line) /\ ParseHeader(Fields(line)).exc # NoExc
  \/ IsDetLine(line) /\ ParseDetail(ReferenceHeader, Fields(line)).exc
                          \in ParseErrors \ {ValueError(HourMsg)}
MalformedPositions(lines) == {k \in 1..Len(lines) : Malformed(lines[k])}

\* C7: a malformed HDR or DET line is never skipped: the loop never moves
\* past the first one, the run ends in an error, nothing is written, and
\* records decoded before it are not loaded; when the loop stops on that
\* line the error is a parse error (or the DET-before-HDR error).
C7_AllOrNothing ==
  \A k \in MalformedPositions(file_lines) :
    /\ i <= k
    /\ written = <<>>
    /\ Len(processed_records) <= DetCount(file_lines, k - 1)
    /\ pc = "done" => exc # NoExc
    /\ (Ended /\ i = k) => exc \in ParseErrors \cup {SequenceError}

C7_Witness ==
  /\ pc = "done" /\ i = 3 /\ MalformedPositions(file_lines) = {3}
  /\ Len(processed_records) = 1 /\ written = <<>>
  /\ exc \in ParseErrors

\* C8 as stated: a run that failed with the DET-before-HDR error, a parse
\* error or an invalid LOAD_METHOD ends with an outcome its caller can tell
\* from the outcome of a successful run.
C8_FailureReachesCaller ==
  (pc = "done" /\ exc \in ParseErrors \cup {SequenceError, ValueError(LoadMethodMsg)}) =>
    result # "returned None"

OutOfRange(line) ==
  LET f == Fields(line)
  IN  /\ IsDetLine(line) /\ InRange(f, 5)
      /\ strptime_date(Field(f, 4)).ok
      /\ int(Field(f, 5)).ok /\ int(Field(f, 5)).val \notin 1..48

\* C9 as stated: a DET line after a valid HDR with an integer trading
\* period outside 1..48 does not fail the run and gives a record.
C9_OutOfRangePeriodAccepted ==
  \A k \in 1..Len(file_lines) :
    /\ (OutOfRange(file_lines[k]) /\ ~HeaderMissing(header_info) /\ i = k) => ~Ended
    /\ (OutOfRange(file_lines[k]) /\ i > k) =>
         processed_records[DetCount(file_lines, k)].READING_DATETIME.hour \notin 0..23

\* C9 amended: there is no explicit bounds check, but the hour derived from
\* a period outside 1..48 is outside 0..23 and replace() rejects it: the
\* run stops at that line with a ValueError, no record is kept for it and
\* nothing is written.
C9_OutOfRangePeriodFails ==
  \A k \in 1..Len(file_lines) :
    OutOfRange(file_lines[k]) =>
      /\ i <= k
      /\ written = <<>>
      /\ Len(processed_records) <= DetCount(file_lines, k - 1)
      /\ pc = "done" => exc # NoExc
      /\ (Ended /\ i = k /\ ~HeaderMissing(header_info)) => exc = ValueError(HourMsg)

C9_Witness ==
  /\ pc = "done" /\ exc = ValueError(HourMsg) /\ i = Len(file_lines)
  /\ Field(Fields(file_lines[i]), 5) = "49"
  /\ processed_records = <<>>

C10_State ==
  /\ Len(written) <= 1
  /\ written # <<>> => i > Len(file_lines)
  /\ (pc = "done" /\ exc = NoExc /\ DetPositions(file_lines) # {}) =>
       /\ Len(written) = 1
       /\ written[1].rows = processed_records
       /\ Len(written[1].rows) = Cardinality(DetPositions(file_lines))
       /\ \A n \in 1..Len(written[1].rows) :
            written[1].rows[n].ICP_IDENTIFIER = Field(Fields(file_lines[NthDet(file_lines, n)]), 1)

C10_Step ==
  (InLoop /\ IsIgnoredLine(file_lines[i])) =>
    /\ processed_records' = processed_records
    /\ header_info' = header_info
    /\ exc' = NoExc /\ pc' = "transform" /\ i' = i + 1

\* C10: a run that ends without error and has a DET line calls the sink
\* exactly once, after the last line, with one record per DET line in input
\* order; blank lines and lines with another tag add no record, leave the
\* header alone and raise nothing.
C10_SinkOnceInOrder == []C10_State /\ [][C10_Step]_vars

C10_Witness ==
  /\ pc = "done" /\ exc = NoExc /\ Len(written) = 1
  /\ Len(written[1].rows) = 2
  /\ written[1].rows[1].ICP_IDENTIFIER = "ICP1"
  /\ written[1].rows[2].ICP_IDENTIFIER = "ICP2"
====
